---------------------------- MODULE Spec2Model ----------------------------
(***************************************************************************)
(* CloudMart API (src/main.py): a FastAPI service over three Cosmos DB     *)
(* containers (products, cart, orders) with one demo account and HS256     *)
(* bearer tokens.                                                          *)
(*                                                                         *)
(* The state is the remote store (the three containers), the process       *)
(* globals set by init_cosmos, the wall clock, and an observation of the   *)
(* last request served: its route, its response and the store calls it     *)
(* issued.  Every route handler is one action; the store calls a handler   *)
(* makes are numbered 1, 2, ... in program order and the input `fail'      *)
(* names the call that raises (at = 0: none) and the exception class.      *)
(*                                                                         *)
(* Time is counted in whole minutes (the unit of                           *)
(* ACCESS_TOKEN_EXPIRE_MINUTES); `clock' is datetime.utcnow().             *)
(*                                                                         *)
(* Handlers are plain `def' functions, which the server runs on worker     *)
(* threads, and several instances may share the store: where requests      *)
(* overlap, a handler is a sequence of steps, one per store call, and      *)
(* `inflight' holds the position and the locals of each request.           *)
(***************************************************************************)
EXTENDS Integers, Sequences, FiniteSets, TLC

VARIABLES
    configured,   \* COSMOS_ENDPOINT and COSMOS_KEY are both set (lines 26-27)
    started,      \* startup_event has run (line 151)
    client,       \* "None" or "CosmosClient" (lines 30, 48); the three containers are set with it
    products,     \* the remote "products" container: documents in creation order
    cart,         \* the remote "cart" container: documents in creation order
    orders,       \* the remote "orders" container: documents in creation order
    uuidCount,    \* number of uuid.uuid4() values drawn so far
    clock,        \* datetime.utcnow(), in minutes
    issued,       \* tokens handed out by auth_login, with their time of issue
    route,        \* the handler that served the last request
    response,     \* its response
    storeCalls,   \* the store calls it issued, in order
    raised,       \* the exception one of those calls raised, or None
    inflight      \* requests being served step by step: position and locals of each

store == <<products, cart, orders, uuidCount>>
vars == <<configured, started, client, products, cart, orders, uuidCount,
          clock, issued, route, response, storeCalls, raised, inflight>>

-----------------------------------------------------------------------------
(* Bounds of the model *)

MaxUuid == 2          \* uuid4 values add_to_cart may draw (create_order: MaxOrders more)
MaxQuantity == 2      \* largest quantity a request carries
MaxOrders == 1        \* orders the model may persist
MaxFailAt == 4        \* store calls (1..MaxFailAt) a failure may be injected at
MaxClock == 62        \* last minute the clock reaches
MaxLogins == 1        \* distinct tokens auth_login hands out

-----------------------------------------------------------------------------
(* Program constants *)

DEMO_USERNAME == "demo"
DEMO_PASSWORD == "demo123"
JWT_SECRET_KEY == "cloudmart-dev-secret-key"
JWT_ALGORITHM == "HS256"
ACCESS_TOKEN_EXPIRE_MINUTES == 60
DEFAULT_USER == "demo_user"

\* The demo catalog of seed_products, in list order.  Prices are in cents;
\* the description and the image glyph are not read by any handler logic and
\* the image is kept as a name.
SeedProducts ==
    << [id |-> "1", name |-> "Wireless Headphones Pro", category |-> "Electronics",
        price |-> 19999, stock |-> 50, image |-> "headphones"],
       [id |-> "2", name |-> "Smart Watch Elite", category |-> "Electronics",
        price |-> 29999, stock |-> 30, image |-> "watch"],
       [id |-> "3", name |-> "Running Shoes X1", category |-> "Sports",
        price |-> 8999, stock |-> 100, image |-> "shoe"],
       [id |-> "4", name |-> "Laptop Backpack Pro", category |-> "Accessories",
        price |-> 4999, stock |-> 75, image |-> "backpack"],
       [id |-> "5", name |-> "Coffee Maker Deluxe", category |-> "Home",
        price |-> 7999, stock |-> 40, image |-> "coffee"],
       [id |-> "6", name |-> "Yoga Mat Premium", category |-> "Sports",
        price |-> 3599, stock |-> 60, image |-> "yoga"],
       [id |-> "7", name |-> "Bluetooth Speaker", category |-> "Electronics",
        price |-> 5999, stock |-> 45, image |-> "speaker"],
       [id |-> "8", name |-> "Desk Lamp LED", category |-> "Home",
        price |-> 2999, stock |-> 80, image |-> "lamp"] >>

-----------------------------------------------------------------------------
(* Inputs *)

\* Product ids a request may name: one of the catalog and one that no seeded
\* product has.
RequestIds == {"1", "99"}
\* quantity: int, with no validator: zero and negative values reach the handler.
Quantities == (-1)..MaxQuantity
Categories == {"Sports", "Toys"}
SearchQueries == {"", "Pro", "zzz"}

\* Exception classes a store call may raise: the azure.cosmos HTTP error the
\* handlers name, and a transport error that is not a subclass of it.
CosmosHttpResponseError == "CosmosHttpResponseError"
ServiceRequestError == "ServiceRequestError"
NoFailure == [at |-> 0, exc |-> "None"]
FailuresIn(n) == {NoFailure} \cup
                 [at : 1..n, exc : {CosmosHttpResponseError, ServiceRequestError}]
Failures == FailuresIn(MaxFailAt)

-----------------------------------------------------------------------------
(* Responses *)

Json(status, kind, body) == [status |-> status, kind |-> kind, body |-> body]
HTTPException(status, detail) == Json(status, "detail", detail)
NoRequest == "none"
NoResponse == Json(0, "none", "")

-----------------------------------------------------------------------------
(* The store: azure.cosmos ContainerProxy calls on a container held as a    *)
(* sequence of documents.  A call answers [raised, container] or a list.    *)

None == "None"
Ok(c) == [raised |-> None, container |-> c]
Raise(exc, c) == [raised |-> exc, container |-> c]

HasId(c, id) == \E i \in 1..Len(c) : c[i].id = id

\* ContainerProxy.create_item: a document whose id exists is a conflict.
create_item(c, doc) ==
    IF HasId(c, doc.id) THEN Raise("CosmosResourceExistsError", c)
    ELSE Ok(Append(c, doc))

\* ContainerProxy.upsert_item: replace the document with that id, or insert.
upsert_item(c, doc) ==
    IF HasId(c, doc.id)
    THEN Ok([i \in 1..Len(c) |-> IF c[i].id = doc.id THEN doc ELSE c[i]])
    ELSE Ok(Append(c, doc))

\* ContainerProxy.delete_item(id, partition_key): the cart is partitioned by
\* user_id; a document that is not there is a CosmosResourceNotFoundError.
delete_item(c, id, partition_key) ==
    IF \E i \in 1..Len(c) : c[i].id = id /\ c[i].user_id = partition_key
    THEN Ok(SelectSeq(c, LAMBDA d : ~(d.id = id /\ d.user_id = partition_key)))
    ELSE Raise("CosmosResourceNotFoundError", c)

\* uuid.uuid4(): a value no earlier call returned.
uuid4 == uuidCount + 1

\* "if not products_container" etc.: the three containers are None until
\* init_cosmos sets them together with the client.
products_container == client # None
cart_container == client # None
orders_container == client # None

\* The exception call number `n' of a handler raises, if any.
Fails(fail, n) == fail.at = n

-----------------------------------------------------------------------------
(* JWT AUTH *)

\* HMAC over the signing input: equal exactly when key, algorithm and payload are.
Sign(key, alg, payload) == <<key, alg, payload>>

\* jose.jwt.encode: three segments, header, payload, signature.
jwt_encode(claims, key, algorithm) ==
    [segments |-> 3, alg |-> algorithm, payload |-> claims,
     signature |-> Sign(key, algorithm, claims)]

\* jose's expiry test (_validate_exp): the token has expired when exp < now.
Expired(exp, now) == exp < now

\* jose.jwt.decode(token, key, algorithms) at time `now': JWTError for a
\* token that is not three segments, names another algorithm, or carries a
\* signature that does not verify; ExpiredSignatureError (a JWTError) once
\* the exp claim has passed.  Otherwise the claims.
jwt_decode(token, key, algorithm, now) ==
    IF token.segments # 3 THEN [raised |-> "JWTError", payload |-> <<>>]
    ELSE IF token.alg # algorithm THEN [raised |-> "JWTError", payload |-> <<>>]
    ELSE IF token.signature # Sign(key, token.alg, token.payload)
         THEN [raised |-> "JWTError", payload |-> <<>>]
    ELSE IF "exp" \in DOMAIN token.payload /\ Expired(token.payload.exp, now)
         THEN [raised |-> "JWTError", payload |-> <<>>]
    ELSE [raised |-> None, payload |-> token.payload]

\* Mutant: a lifetime one minute short.
DefaultExpiryShort == ACCESS_TOKEN_EXPIRE_MINUTES - 1

\* timedelta(minutes=ACCESS_TOKEN_EXPIRE_MINUTES), the default of line 172.
DefaultExpiry == ACCESS_TOKEN_EXPIRE_MINUTES

\* create_access_token(data) at time `now' (no expires_delta is ever passed).
create_access_token(data, now) ==
    LET expire == now + DefaultExpiry
        to_encode == [k \in DOMAIN data \cup {"exp"} |->
                         IF k = "exp" THEN expire ELSE data[k]]
    IN jwt_encode(to_encode, JWT_SECRET_KEY, JWT_ALGORITHM)

\* An Authorization header: absent, or "<scheme><credentials>" where the
\* scheme is the text up to and including the first space.
NoToken == [segments |-> 0, alg |-> "", payload |-> <<>>, signature |-> <<>>]
MissingHeader == [present |-> FALSE, scheme |-> "", credentials |-> NoToken]
Header(scheme, token) == [present |-> TRUE, scheme |-> scheme, credentials |-> token]
Bearer(token) == Header("Bearer ", token)

\* Mutant: any header that is present passes the scheme test.
NotBearerMissingOnly(authorization) == ~authorization.present

\* The test of line 179: no header, or one that does not start with "Bearer ".
NotBearer(authorization) == ~authorization.present \/ authorization.scheme # "Bearer "

\* The payload.get("sub") is None test of line 186.
LacksUsername(payload) == "sub" \notin DOMAIN payload

\* get_current_user(authorization) at time `now': the username, or the 401.
get_current_user(authorization, now) ==
    IF NotBearer(authorization)
    THEN [status |-> 401, detail |-> "Not authenticated", username |-> ""]
    ELSE LET token == authorization.credentials
             decoded == jwt_decode(token, JWT_SECRET_KEY, JWT_ALGORITHM, now)
         IN IF decoded.raised # None
            THEN [status |-> 401, detail |-> "Invalid or expired token", username |-> ""]
            ELSE IF LacksUsername(decoded.payload)
            THEN [status |-> 401, detail |-> "Invalid token payload", username |-> ""]
            ELSE [status |-> 200, detail |-> "", username |-> decoded.payload.sub]

-----------------------------------------------------------------------------
(* Observation of a served request *)

Observe(req, resp, calls, exc) ==
    /\ route' = req
    /\ response' = resp
    /\ storeCalls' = calls
    /\ raised' = exc

\* The handler ran to its return (or to an HTTPException of its own).
Respond(req, resp, calls) == Observe(req, resp, calls, None)

\* A store call raised `exc' and the handler (or the server) answered `resp'.
Caught(req, resp, calls, exc) == Observe(req, resp, calls, exc)

\* Depends(get_current_user) raised: the 401 is the response and the handler
\* body does not run.
Unauthorized(req, auth) ==
    /\ Respond(req, HTTPException(auth.status, auth.detail), <<>>)
    /\ UNCHANGED store

ErrorPayload(msg) == Json(200, "error", msg)
EmptyList == Json(200, "list", <<>>)

-----------------------------------------------------------------------------
(* Requests in flight *)

\* The handles of the requests (or starting instances) that may overlap.
Requests == {"r1", "r2"}

NoItem == [product_id |-> "", quantity |-> 0]
NoOrder == [id |-> 0, user_id |-> "", items |-> <<>>, status |-> "", created_at |-> 0]

\* The locals of a handler between two store calls: the request body, the
\* list its query returned, the index of the loop it is in, the order
\* document it built, and the response once it has returned.
Handler(req, pc, item, read, k, order, resp) ==
    [route |-> req, pc |-> pc, item |-> item, read |-> read, k |-> k,
     order |-> order, response |-> resp]

Idle == Handler(NoRequest, "idle", NoItem, <<>>, 0, NoOrder, NoResponse)

\* The handler returned `resp' (the except clause included).
Returned(h, resp) == [h EXCEPT !.pc = "done", !.response = resp]

-----------------------------------------------------------------------------
(* Startup *)

Init ==
    /\ configured \in BOOLEAN
    /\ started = FALSE
    /\ client = None
    /\ products \in {<<>>, SeedProducts}
    /\ cart = <<>>
    /\ orders = <<>>
    /\ uuidCount = 0
    /\ clock = 0
    /\ issued = {}
    /\ route = NoRequest
    /\ response = NoResponse
    /\ storeCalls = <<>>
    /\ raised = None
    /\ inflight = [r \in Requests |-> Idle]

\* seed_products from the k-th seed on; call number n is the create_item of
\* seed k.  A conflict is passed over; any other exception leaves the loop.
RECURSIVE SeedFrom(_, _, _, _)
SeedFrom(c, k, n, fail) ==
    IF k > Len(SeedProducts) THEN [container |-> c, calls |-> <<>>, raised |-> None]
    ELSE IF Fails(fail, n)
    THEN [container |-> c, calls |-> <<"products.create_item">>, raised |-> fail.exc]
    ELSE LET r == create_item(c, SeedProducts[k])
             rest == SeedFrom(r.container, k + 1, n + 1, fail)
         IN [container |-> rest.container,
             calls |-> <<"products.create_item">> \o rest.calls,
             raised |-> rest.raised]

seed_products(c, fail) == SeedFrom(c, 1, 2, fail)

\* Mutant: the catalog is taken to be empty whatever the query returned.
CatalogEmptyAlways(items) == TRUE

\* The test of line 61 on the list the query returned.
CatalogEmpty(items) == Len(items) = 0

\* init_cosmos: without the environment nothing is set; otherwise the client
\* and containers are set and the catalog is seeded when the query finds it
\* empty.  Every exception of the seeding block is swallowed.
init_cosmos(fail) ==
    IF ~configured
    THEN /\ UNCHANGED <<client, products>>
         /\ storeCalls' = <<>>
         /\ raised' = None
    ELSE /\ client' = "CosmosClient"
         /\ IF Fails(fail, 1)
            THEN /\ UNCHANGED products
                 /\ storeCalls' = <<"products.query_items">>
                 /\ raised' = fail.exc
            ELSE IF CatalogEmpty(products)
            THEN LET seeded == seed_products(products, fail)
                 IN /\ products' = seeded.container
                    /\ storeCalls' = <<"products.query_items">> \o seeded.calls
                    /\ raised' = seeded.raised
            ELSE /\ UNCHANGED products
                 /\ storeCalls' = <<"products.query_items">>
                 /\ raised' = None

startup_event(fail) ==
    /\ ~started
    /\ started' = TRUE
    /\ init_cosmos(fail)
    /\ route' = "startup_event"
    /\ response' = NoResponse
    /\ UNCHANGED <<inflight, configured, cart, orders, uuidCount, clock, issued>>

\* The process exits and is started again: the module globals are those of
\* a fresh process, the store is what it was.
Restart ==
    /\ started
    /\ started' = FALSE
    /\ client' = None
    /\ Observe(NoRequest, NoResponse, <<>>, None)
    /\ UNCHANGED <<inflight, configured, store, clock, issued>>

\* The except clause of seed_products (lines 147-148): a creation conflict is
\* passed over and the loop goes on.
PassedOver(exc) == exc = "CosmosResourceExistsError"

\* init_cosmos of another instance of the service that starts against the
\* same store, one store call at a time.  It begins (line 44) ...
init_cosmos_begin(r) ==
    /\ inflight[r].pc = "idle"
    /\ configured
    /\ inflight' = [inflight EXCEPT ![r] =
                       Handler("init_cosmos", "query", NoItem, <<>>, 0, NoOrder, NoResponse)]
    /\ UNCHANGED <<configured, started, client, store, clock, issued,
                   route, response, storeCalls, raised>>

\* ... queries the catalog (lines 56-61) ...
init_cosmos_query(r) ==
    /\ inflight[r].route = "init_cosmos"
    /\ inflight[r].pc = "query"
    /\ LET items == products
       IN inflight' = [inflight EXCEPT ![r] =
                          IF CatalogEmpty(items)
                          THEN [@ EXCEPT !.pc = "seed", !.read = items, !.k = 1]
                          ELSE [@ EXCEPT !.pc = "done", !.read = items]]
    /\ UNCHANGED <<configured, started, client, store, clock, issued,
                   route, response, storeCalls, raised>>

\* ... and creates the next product of the seed list (lines 144-148).  An
\* exception that is not passed over ends init_cosmos (lines 63-65).
seed_products_step(r) ==
    /\ inflight[r].route = "init_cosmos"
    /\ inflight[r].pc = "seed"
    /\ LET k == inflight[r].k
           w == create_item(products, SeedProducts[k])
       IN /\ products' = w.container
          /\ inflight' = [inflight EXCEPT ![r] =
                IF w.raised # None /\ ~PassedOver(w.raised) THEN [@ EXCEPT !.pc = "done"]
                ELSE IF k = Len(SeedProducts) THEN [@ EXCEPT !.pc = "done"]
                ELSE [@ EXCEPT !.k = k + 1]]
    /\ UNCHANGED <<configured, started, client, cart, orders, uuidCount, clock, issued,
                   route, response, storeCalls, raised>>

\* The handler has returned: its response is sent and its locals are gone.
Complete(r) ==
    /\ inflight[r].pc = "done"
    /\ inflight' = [inflight EXCEPT ![r] = Idle]
    /\ UNCHANGED <<configured, started, client, store, clock, issued,
                   route, response, storeCalls, raised>>

-----------------------------------------------------------------------------
(* Catalog routes *)

\* CONTAINS(text, q) of the search query, for the texts of the catalog and
\* the substrings the model asks for.
Contains(text, q) ==
    \/ q = ""
    \/ q = text
    \/ q = "Pro" /\ text \in {"Wireless Headphones Pro", "Laptop Backpack Pro"}

\* SELECT DISTINCT c.category: each category once, in order of first appearance.
RECURSIVE Distinct(_)
Distinct(s) ==
    IF s = <<>> THEN <<>>
    ELSE LET init == Distinct(SubSeq(s, 1, Len(s) - 1))
             last == s[Len(s)]
         IN IF \E i \in 1..Len(init) : init[i] = last THEN init ELSE Append(init, last)

list_products(category, fail) ==
    /\ started
    /\ UNCHANGED <<inflight, configured, started, client, store, clock, issued>>
    /\ LET req == "list_products" IN
       IF ~products_container THEN Respond(req, EmptyList, <<>>)
       ELSE IF Fails(fail, 1)
       THEN Caught(req, EmptyList, <<"products.query_items">>, fail.exc)
       ELSE LET items == IF category # None /\ category # ""
                         THEN SelectSeq(products, LAMBDA c : c.category = category)
                         ELSE products
            IN Respond(req, Json(200, "list", items), <<"products.query_items">>)

search_products(q, fail) ==
    /\ started
    /\ UNCHANGED <<inflight, configured, started, client, store, clock, issued>>
    /\ LET req == "search_products" IN
       IF ~products_container THEN Respond(req, EmptyList, <<>>)
       ELSE IF Fails(fail, 1)
       THEN Caught(req, EmptyList, <<"products.query_items">>, fail.exc)
       ELSE LET items == SelectSeq(products,
                             LAMBDA c : Contains(c.name, q) \/ Contains(c.category, q))
            IN Respond(req, Json(200, "list", items), <<"products.query_items">>)

\* The except clause of get_product (lines 1090-1091): what a raised store
\* exception becomes.  Only CosmosHttpResponseError is caught; anything else
\* leaves the handler and the server answers 500.
get_product_except(exc) ==
    IF exc = CosmosHttpResponseError
    THEN HTTPException(404, "Product not found")
    ELSE Json(500, "raised", exc)

get_product(product_id, fail) ==
    /\ started
    /\ UNCHANGED <<inflight, configured, started, client, store, clock, issued>>
    /\ LET req == "get_product" IN
       IF ~products_container
       THEN Respond(req, HTTPException(503, "Database not available"), <<>>)
       ELSE IF Fails(fail, 1)
       THEN Caught(req, get_product_except(fail.exc), <<"products.query_items">>, fail.exc)
       ELSE LET items == SelectSeq(products, LAMBDA c : c.id = product_id)
            IN IF items # <<>>
               THEN Respond(req, Json(200, "product", items[1]), <<"products.query_items">>)
               ELSE Respond(req, HTTPException(404, "Product not found"),
                            <<"products.query_items">>)

get_categories(fail) ==
    /\ started
    /\ UNCHANGED <<inflight, configured, started, client, store, clock, issued>>
    /\ LET req == "get_categories" IN
       IF ~products_container THEN Respond(req, EmptyList, <<>>)
       ELSE IF Fails(fail, 1)
       THEN Caught(req, EmptyList, <<"products.query_items">>, fail.exc)
       ELSE LET items == Distinct([i \in 1..Len(products) |-> products[i].category])
            IN Respond(req, Json(200, "list", items), <<"products.query_items">>)

-----------------------------------------------------------------------------
(* Cart routes *)

\* "SELECT * FROM c WHERE c.user_id = @user_id"
ItemsOfUser(c, user_id) == SelectSeq(c, LAMBDA d : d.user_id = user_id)

\* Mutant: the query filters on the user only.
ItemsOfUserAnyProduct(c, user_id, product_id) == SelectSeq(c, LAMBDA d : d.user_id = user_id)

\* "SELECT * FROM c WHERE c.user_id = @user_id AND c.product_id = @product_id"
ItemsOfUserProduct(c, user_id, product_id) ==
    SelectSeq(c, LAMBDA d : d.user_id = user_id /\ d.product_id = product_id)

\* The request body of add_to_cart.
CartItem(product_id, quantity) == [product_id |-> product_id, quantity |-> quantity]

\* Mutant: the line carries the product's stock as its quantity.
EnrichedLineStock(product, item) ==
    [id |-> product.id, name |-> product.name, price |-> product.price,
     quantity |-> product.stock, image |-> product.image, category |-> product.category]

\* One line of the enriched cart (lines 1138-1145).
EnrichedLine(product, item) ==
    [id |-> product.id, name |-> product.name, price |-> product.price,
     quantity |-> item.quantity, image |-> product.image, category |-> product.category]

\* The loop of get_cart from item k on; call number n is the product query
\* of item k.  An item whose product query finds nothing is skipped.
RECURSIVE EnrichFrom(_, _, _, _)
EnrichFrom(items, k, n, fail) ==
    IF k > Len(items) THEN [lines |-> <<>>, calls |-> <<>>, raised |-> None]
    ELSE IF Fails(fail, n)
    THEN [lines |-> <<>>, calls |-> <<"products.query_items">>, raised |-> fail.exc]
    ELSE LET product_items == SelectSeq(products, LAMBDA c : c.id = items[k].product_id)
             rest == EnrichFrom(items, k + 1, n + 1, fail)
         IN [lines |-> IF product_items = <<>> THEN rest.lines
                       ELSE <<EnrichedLine(product_items[1], items[k])>> \o rest.lines,
             calls |-> <<"products.query_items">> \o rest.calls,
             raised |-> rest.raised]

\* What get_cart answers when a store call raised (lines 1150-1151).
get_cart_except(exc) == ErrorPayload(exc)

get_cart(authorization, fail) ==
    /\ started
    /\ UNCHANGED <<inflight, configured, started, client, clock, issued>>
    /\ LET req == "get_cart"
           auth == get_current_user(authorization, clock)
       IN IF auth.status # 200 THEN Unauthorized(req, auth)
          ELSE /\ UNCHANGED store
               /\ IF ~cart_container \/ ~products_container
                  THEN Respond(req, EmptyList, <<>>)
                  ELSE IF Fails(fail, 1)
                  THEN Caught(req, get_cart_except(fail.exc),
                              <<"cart.query_items">>, fail.exc)
                  ELSE LET items == ItemsOfUser(cart, DEFAULT_USER)
                           enriched == EnrichFrom(items, 1, 2, fail)
                           calls == <<"cart.query_items">> \o enriched.calls
                       IN IF enriched.raised # None
                          THEN Caught(req, get_cart_except(enriched.raised),
                                      calls, enriched.raised)
                          ELSE Respond(req, Json(200, "list", enriched.lines), calls)

\* Mutant: the new quantity is added to the stored one.
UpdatedItemSummed(existing, item) == [existing[1] EXCEPT !.quantity = @ + item.quantity]

\* The quantity written over an existing entry (lines 1170-1171).
UpdatedItem(existing, item) == [existing[1] EXCEPT !.quantity = item.quantity]

\* The entry created when none exists (lines 1174-1179).
NewCartItem(id, item) ==
    [id |-> id, user_id |-> DEFAULT_USER,
     product_id |-> item.product_id, quantity |-> item.quantity]

add_to_cart(item, authorization, fail) ==
    /\ started
    /\ UNCHANGED <<inflight, configured, started, client, clock, issued, products, orders>>
    /\ LET req == "add_to_cart"
           auth == get_current_user(authorization, clock)
           saved == Json(200, "message", "Saved to Cosmos DB")
       IN IF auth.status # 200 THEN Unauthorized(req, auth)
          ELSE IF ~cart_container
          THEN /\ Respond(req, ErrorPayload("Database not available"), <<>>)
               /\ UNCHANGED <<cart, uuidCount>>
          ELSE IF Fails(fail, 1)
          THEN /\ Caught(req, ErrorPayload(fail.exc), <<"cart.query_items">>, fail.exc)
               /\ UNCHANGED <<cart, uuidCount>>
          ELSE LET existing == ItemsOfUserProduct(cart, DEFAULT_USER, item.product_id)
               IN IF existing # <<>>
                  THEN LET calls == <<"cart.query_items", "cart.upsert_item">>
                           w == upsert_item(cart, UpdatedItem(existing, item))
                       IN /\ UNCHANGED uuidCount
                          /\ IF Fails(fail, 2)
                             THEN /\ Caught(req, ErrorPayload(fail.exc), calls, fail.exc)
                                  /\ UNCHANGED cart
                             ELSE /\ Respond(req, saved, calls)
                                  /\ cart' = w.container
                  ELSE LET calls == <<"cart.query_items", "cart.create_item">>
                           w == create_item(cart, NewCartItem(uuid4, item))
                       IN /\ uuidCount < MaxUuid
                          /\ uuidCount' = uuidCount + 1
                          /\ IF Fails(fail, 2)
                             THEN /\ Caught(req, ErrorPayload(fail.exc), calls, fail.exc)
                                  /\ UNCHANGED cart
                             ELSE IF w.raised # None
                             THEN /\ Caught(req, ErrorPayload(w.raised), calls, w.raised)
                                  /\ UNCHANGED cart
                             ELSE /\ Respond(req, saved, calls)
                                  /\ cart' = w.container

\* A loop of delete_item calls over `items' from item k on; call number n is
\* the delete of item k.  The first exception leaves the loop.
RECURSIVE DeleteFrom(_, _, _, _, _)
DeleteFrom(c, items, k, n, fail) ==
    IF k > Len(items) THEN [container |-> c, calls |-> <<>>, raised |-> None]
    ELSE IF Fails(fail, n)
    THEN [container |-> c, calls |-> <<"cart.delete_item">>, raised |-> fail.exc]
    ELSE LET r == delete_item(c, items[k].id, DEFAULT_USER)
         IN IF r.raised # None
            THEN [container |-> c, calls |-> <<"cart.delete_item">>, raised |-> r.raised]
            ELSE LET rest == DeleteFrom(r.container, items, k + 1, n + 1, fail)
                 IN [container |-> rest.container,
                     calls |-> <<"cart.delete_item">> \o rest.calls,
                     raised |-> rest.raised]

remove_from_cart(product_id, authorization, fail) ==
    /\ started
    /\ UNCHANGED <<inflight, configured, started, client, clock, issued, products, orders, uuidCount>>
    /\ LET req == "remove_from_cart"
           auth == get_current_user(authorization, clock)
       IN IF auth.status # 200 THEN Unauthorized(req, auth)
          ELSE IF ~cart_container
          THEN /\ Respond(req, ErrorPayload("Database not available"), <<>>)
               /\ UNCHANGED cart
          ELSE IF Fails(fail, 1)
          THEN /\ Caught(req, ErrorPayload(fail.exc), <<"cart.query_items">>, fail.exc)
               /\ UNCHANGED cart
          ELSE LET items == ItemsOfUserProduct(cart, DEFAULT_USER, product_id)
                   deleted == DeleteFrom(cart, items, 1, 2, fail)
                   calls == <<"cart.query_items">> \o deleted.calls
               IN /\ cart' = deleted.container
                  /\ IF deleted.raised # None
                     THEN Caught(req, ErrorPayload(deleted.raised), calls, deleted.raised)
                     ELSE Respond(req, Json(200, "message", "Removed from Cosmos DB"), calls)

-----------------------------------------------------------------------------
(* Order routes *)

\* The "items" of the order: one line per cart entry read (lines 1223-1226).
OrderLines(cart_items) ==
    [i \in 1..Len(cart_items) |->
        [product_id |-> cart_items[i].product_id, quantity |-> cart_items[i].quantity]]

\* The order document built from the cart entries read (lines 1220-1229).
NewOrder(id, cart_items, now) ==
    [id |-> id, user_id |-> DEFAULT_USER, items |-> OrderLines(cart_items),
     status |-> "confirmed", created_at |-> now]

\* Mutant: only the first entry read is deleted.
ConsumedFirstOnly(cart_items) ==
    IF cart_items = <<>> THEN <<>> ELSE <<cart_items[1]>>

\* The cart entries create_order deletes after persisting the order (line 1231).
Consumed(cart_items) == cart_items

create_order(authorization, fail) ==
    /\ started
    /\ UNCHANGED <<inflight, configured, started, client, clock, issued, products>>
    /\ LET req == "create_order"
           auth == get_current_user(authorization, clock)
       IN IF auth.status # 200 THEN Unauthorized(req, auth)
          ELSE IF ~orders_container \/ ~cart_container
          THEN /\ Respond(req, ErrorPayload("Database not available"), <<>>)
               /\ UNCHANGED <<cart, orders, uuidCount>>
          ELSE IF Fails(fail, 1)
          THEN /\ Caught(req, ErrorPayload(fail.exc), <<"cart.query_items">>, fail.exc)
               /\ UNCHANGED <<cart, orders, uuidCount>>
          ELSE LET cart_items == ItemsOfUser(cart, DEFAULT_USER)
                   order == NewOrder(uuid4, cart_items, clock)
                   w == create_item(orders, order)
                   deleted == DeleteFrom(cart, Consumed(cart_items), 1, 3, fail)
                   calls == <<"cart.query_items", "orders.create_item">>
               IN /\ Len(orders) < MaxOrders
                  /\ uuidCount < MaxUuid + MaxOrders
                  /\ uuidCount' = uuidCount + 1
                  /\ IF Fails(fail, 2)
                     THEN /\ Caught(req, ErrorPayload(fail.exc), calls, fail.exc)
                          /\ UNCHANGED <<cart, orders>>
                     ELSE IF w.raised # None
                     THEN /\ Caught(req, ErrorPayload(w.raised), calls, w.raised)
                          /\ UNCHANGED <<cart, orders>>
                     ELSE /\ orders' = w.container
                          /\ cart' = deleted.container
                          /\ IF deleted.raised # None
                             THEN Caught(req, ErrorPayload(deleted.raised),
                                         calls \o deleted.calls, deleted.raised)
                             ELSE Respond(req, Json(200, "order", order),
                                          calls \o deleted.calls)

get_orders(authorization, fail) ==
    /\ started
    /\ UNCHANGED <<inflight, configured, started, client, clock, issued>>
    /\ LET req == "get_orders"
           auth == get_current_user(authorization, clock)
       IN IF auth.status # 200 THEN Unauthorized(req, auth)
          ELSE /\ UNCHANGED store
               /\ IF ~orders_container THEN Respond(req, EmptyList, <<>>)
                  ELSE IF Fails(fail, 1)
                  THEN Caught(req, EmptyList, <<"orders.query_items">>, fail.exc)
                  ELSE Respond(req, Json(200, "list", ItemsOfUser(orders, DEFAULT_USER)),
                               <<"orders.query_items">>)

-----------------------------------------------------------------------------
(* The cart and order handlers one store call at a time *)

\* What a step leaves alone besides the store and the requests in flight.
Process == <<configured, started, client, clock, issued, route, response, storeCalls, raised>>

\* A request arrives while others are being served: the dependency runs and
\* the handler starts with its test of the containers (lines 1155-1157,
\* 1209-1211).
Receive(r, req, item, authorization) ==
    /\ started
    /\ inflight[r].pc = "idle"
    /\ LET auth == get_current_user(authorization, clock)
           h == Handler(req, "query", item, <<>>, 0, NoOrder, NoResponse)
       IN inflight' = [inflight EXCEPT ![r] =
             IF auth.status # 200
             THEN Returned(h, HTTPException(auth.status, auth.detail))
             ELSE IF ~cart_container \/ (req = "create_order" /\ ~orders_container)
             THEN Returned(h, ErrorPayload("Database not available"))
             ELSE h]
    /\ UNCHANGED <<Process, store>>

\* add_to_cart, first store call: the query for the entry (lines 1159-1168).
\* `exc' is the exception the call raises, None when it is answered.
add_to_cart_query(r, exc) ==
    /\ inflight[r].route = "add_to_cart"
    /\ inflight[r].pc = "query"
    /\ LET h == inflight[r]
           existing == ItemsOfUserProduct(cart, DEFAULT_USER, h.item.product_id)
       IN inflight' = [inflight EXCEPT ![r] =
             IF exc # None THEN Returned(h, ErrorPayload(exc))
             ELSE [h EXCEPT !.pc = "write", !.read = existing]]
    /\ UNCHANGED <<Process, store>>

\* Mutant: the entry is read again at the moment of the write.
ExistingReadAgain(h, c) == ItemsOfUserProduct(c, DEFAULT_USER, h.item.product_id)

\* `existing' at the test of line 1169: the list the query returned, whatever
\* the container `c' holds by now.
Existing(h, c) == h.read

\* add_to_cart, second store call: the upsert of the entry read, or the
\* creation of a new one (lines 1169-1181).
add_to_cart_write(r, exc) ==
    /\ inflight[r].route = "add_to_cart"
    /\ inflight[r].pc = "write"
    /\ LET h == inflight[r]
           existing == Existing(h, cart)
           saved == Json(200, "message", "Saved to Cosmos DB")
       IN IF existing # <<>>
          THEN LET w == upsert_item(cart, UpdatedItem(existing, h.item))
               IN /\ UNCHANGED uuidCount
                  /\ IF exc # None
                     THEN /\ cart' = cart
                          /\ inflight' = [inflight EXCEPT ![r] = Returned(h, ErrorPayload(exc))]
                     ELSE /\ cart' = w.container
                          /\ inflight' = [inflight EXCEPT ![r] = Returned(h, saved)]
          ELSE LET w == create_item(cart, NewCartItem(uuid4, h.item))
               IN /\ uuidCount < MaxUuid
                  /\ uuidCount' = uuidCount + 1
                  /\ IF exc # None
                     THEN /\ cart' = cart
                          /\ inflight' = [inflight EXCEPT ![r] = Returned(h, ErrorPayload(exc))]
                     ELSE IF w.raised # None
                     THEN /\ cart' = cart
                          /\ inflight' = [inflight EXCEPT ![r] =
                                             Returned(h, ErrorPayload(w.raised))]
                     ELSE /\ cart' = w.container
                          /\ inflight' = [inflight EXCEPT ![r] = Returned(h, saved)]
    /\ UNCHANGED <<Process, products, orders>>

\* create_order, first store call: the query for the cart (lines 1213-1219).
create_order_query(r, exc) ==
    /\ inflight[r].route = "create_order"
    /\ inflight[r].pc = "query"
    /\ LET h == inflight[r]
           cart_items == ItemsOfUser(cart, DEFAULT_USER)
       IN inflight' = [inflight EXCEPT ![r] =
             IF exc # None THEN Returned(h, ErrorPayload(exc))
             ELSE [h EXCEPT !.pc = "persist", !.read = cart_items]]
    /\ UNCHANGED <<Process, store>>

\* Mutant: the order is withdrawn when a call after its creation fails.
OrdersRolledBack(c, order) == SelectSeq(c, LAMBDA o : o.id # order.id)

\* The orders container after the except clause of create_order (lines
\* 1234-1235): the error is returned and nothing is undone.
OrdersAfterFailure(c, order) == c

\* create_order, second store call: the order is built and persisted
\* (lines 1220-1230); with nothing to delete the order is returned.
create_order_persist(r, exc) ==
    /\ inflight[r].route = "create_order"
    /\ inflight[r].pc = "persist"
    /\ uuidCount' = uuidCount + 1
    /\ LET h == inflight[r]
           order == NewOrder(uuid4, h.read, clock)
           w == create_item(orders, order)
       IN IF exc # None
          THEN /\ orders' = orders
               /\ inflight' = [inflight EXCEPT ![r] = Returned(h, ErrorPayload(exc))]
          ELSE IF w.raised # None
          THEN /\ orders' = orders
               /\ inflight' = [inflight EXCEPT ![r] = Returned(h, ErrorPayload(w.raised))]
          ELSE /\ orders' = w.container
               /\ inflight' = [inflight EXCEPT ![r] =
                     IF Consumed(h.read) = <<>>
                     THEN Returned([h EXCEPT !.order = order], Json(200, "order", order))
                     ELSE [h EXCEPT !.pc = "delete", !.order = order, !.k = 1]]
    /\ UNCHANGED <<Process, products, cart>>

\* create_order, each further store call: the deletion of the next entry
\* read (lines 1231-1232); after the last one the order is returned.
create_order_delete(r, exc) ==
    /\ inflight[r].route = "create_order"
    /\ inflight[r].pc = "delete"
    /\ LET h == inflight[r]
           item == Consumed(h.read)[h.k]
           w == delete_item(cart, item.id, DEFAULT_USER)
       IN IF exc # None
          THEN /\ cart' = cart
               /\ orders' = OrdersAfterFailure(orders, h.order)
               /\ inflight' = [inflight EXCEPT ![r] = Returned(h, ErrorPayload(exc))]
          ELSE IF w.raised # None
          THEN /\ cart' = cart
               /\ orders' = OrdersAfterFailure(orders, h.order)
               /\ inflight' = [inflight EXCEPT ![r] = Returned(h, ErrorPayload(w.raised))]
          ELSE /\ cart' = w.container
               /\ orders' = orders
               /\ inflight' = [inflight EXCEPT ![r] =
                     IF h.k = Len(Consumed(h.read))
                     THEN Returned(h, Json(200, "order", h.order))
                     ELSE [h EXCEPT !.k = h.k + 1]]
    /\ UNCHANGED <<Process, products, uuidCount>>

-----------------------------------------------------------------------------
(* Login and the passing of time *)

LoginRequest(username, password) == [username |-> username, password |-> password]

\* Mutant: rejected only when both the username and the password are wrong.
InvalidCredentialsBoth(body) ==
    body.username # DEMO_USERNAME /\ body.password # DEMO_PASSWORD

\* The test of line 1017.
InvalidCredentials(body) ==
    body.username # DEMO_USERNAME \/ body.password # DEMO_PASSWORD

auth_login(body) ==
    /\ started
    /\ UNCHANGED <<inflight, configured, started, client, store, clock>>
    /\ LET req == "auth_login" IN
       IF InvalidCredentials(body)
       THEN /\ Respond(req, HTTPException(401, "Invalid credentials"), <<>>)
            /\ UNCHANGED issued
       ELSE LET token == create_access_token([sub |-> body.username], clock)
                grant == [token |-> token, at |-> clock]
            IN /\ grant \in issued \/ Cardinality(issued) < MaxLogins
               /\ issued' = issued \cup {grant}
               /\ Respond(req, Json(200, "token",
                              [access_token |-> token, token_type |-> "bearer"]), <<>>)

\* A minute passes.  The observation is of a request served in the current
\* minute, so it is cleared.
Tick ==
    /\ started
    /\ clock < MaxClock
    /\ clock' = clock + 1
    /\ Observe(NoRequest, NoResponse, <<>>, None)
    /\ UNCHANGED <<inflight, configured, started, client, store, issued>>

-----------------------------------------------------------------------------
(* Request inputs *)

Usernames == {DEMO_USERNAME, "admin"}
Passwords == {DEMO_PASSWORD, "wrong"}

\* Ways of spoiling a signed token.
WrongKey(token) == jwt_encode(token.payload, "another-secret", token.alg)
Tampered(token) == [token EXCEPT !.payload.exp = @ + ACCESS_TOKEN_EXPIRE_MINUTES]
Garbled(token) == [token EXCEPT !.segments = 1]
WithoutSub(token) ==
    jwt_encode([exp |-> token.payload.exp], JWT_SECRET_KEY, JWT_ALGORITHM)

\* Tokens for the demo user issued now, exactly one lifetime ago, and one
\* minute before that.
TokenNow == create_access_token([sub |-> DEMO_USERNAME], clock)
TokenAtExpiry ==
    create_access_token([sub |-> DEMO_USERNAME], clock - ACCESS_TOKEN_EXPIRE_MINUTES)
TokenExpired ==
    create_access_token([sub |-> DEMO_USERNAME], clock - ACCESS_TOKEN_EXPIRE_MINUTES - 1)

\* The headers a client may send.
Headers ==
    {MissingHeader, Header("Basic ", TokenNow), Bearer(TokenNow), Bearer(TokenAtExpiry),
     Bearer(TokenExpired), Bearer(WrongKey(TokenNow)), Bearer(Tampered(TokenNow)),
     Bearer(Garbled(TokenNow)), Bearer(WithoutSub(TokenNow))}

\* The headers a client sends that holds tokens auth_login issued.
HeadersIssued ==
    {MissingHeader} \cup
    UNION {{Bearer(g.token), Bearer(WrongKey(g.token)), Bearer(Tampered(g.token))} :
              g \in issued}

\* The bodies and paths sent along with a header: every one with the fresh
\* token, one with any other header.
Items == {CartItem(product_id, quantity) : product_id \in RequestIds, quantity \in Quantities}
ItemsWith(a, I) == IF a = Bearer(TokenNow) THEN I ELSE {CartItem("1", 1)}
IdsWith(a, I) == {item.product_id : item \in ItemsWith(a, I)}

\* The bodies sent where store calls may raise: one per product id.
ItemsFail == {CartItem("1", 1), CartItem("99", 2)}

-----------------------------------------------------------------------------
(* Specifications *)

\* Requests one after the other, every store call answered.
Next ==
    \/ startup_event(NoFailure)
    \/ \E category \in Categories \cup {None, ""} : list_products(category, NoFailure)
    \/ \E q \in SearchQueries : search_products(q, NoFailure)
    \/ \E product_id \in RequestIds : get_product(product_id, NoFailure)
    \/ get_categories(NoFailure)
    \/ \E a \in Headers : get_cart(a, NoFailure)
    \/ \E a \in Headers : \E item \in ItemsWith(a, Items) : add_to_cart(item, a, NoFailure)
    \/ \E a \in Headers : \E product_id \in IdsWith(a, Items) :
          remove_from_cart(product_id, a, NoFailure)
    \/ \E a \in Headers : create_order(a, NoFailure)
    \/ \E a \in Headers : get_orders(a, NoFailure)

Spec == Init /\ [][Next]_vars

\* Requests one after the other, where a store call may raise.  A handler
\* that issues at most n store calls draws its failure among the first n.
HeadersFail == {MissingHeader, Bearer(TokenNow)}

NextFail ==
    \/ \E fail \in Failures : startup_event(fail)
    \/ \E fail \in FailuresIn(1) : \E category \in Categories \cup {None, ""} :
          list_products(category, fail)
    \/ \E fail \in FailuresIn(1) : \E q \in SearchQueries : search_products(q, fail)
    \/ \E fail \in FailuresIn(1) : \E product_id \in RequestIds : get_product(product_id, fail)
    \/ \E fail \in FailuresIn(1) : get_categories(fail)
    \/ \E fail \in Failures : \E a \in HeadersFail : get_cart(a, fail)
    \/ \E fail \in FailuresIn(2) : \E a \in HeadersFail : \E item \in ItemsWith(a, ItemsFail) :
          add_to_cart(item, a, fail)
    \/ \E fail \in Failures : \E a \in HeadersFail : \E product_id \in IdsWith(a, ItemsFail) :
          remove_from_cart(product_id, a, fail)
    \/ \E fail \in Failures : \E a \in HeadersFail : create_order(a, fail)
    \/ \E fail \in FailuresIn(1) : \E a \in HeadersFail : get_orders(a, fail)

SpecFail == Init /\ [][NextFail]_vars

\* Logins and token checks as time passes.
NextAuth ==
    \/ startup_event(NoFailure)
    \/ \E u \in Usernames, p \in Passwords : auth_login(LoginRequest(u, p))
    \/ \E a \in HeadersIssued : get_orders(a, NoFailure)
    \/ Tick

\* The store set up and seeded by an earlier run.
InitAuth == Init /\ configured /\ products = SeedProducts

SpecAuth == InitAuth /\ [][NextAuth]_vars

\* Instances of the service starting, stopping and starting again on one
\* store, while the catalog is listed.
NextSeed ==
    \/ startup_event(NoFailure)
    \/ Restart
    \/ \E category \in {None, "Sports"} : list_products(category, NoFailure)
    \/ \E r \in Requests : init_cosmos_begin(r)
    \/ \E r \in Requests : init_cosmos_query(r)
    \/ \E r \in Requests : seed_products_step(r)
    \/ \E r \in Requests : Complete(r)

SpecSeed == Init /\ [][NextSeed]_vars

\* The bodies sent by requests that overlap.
ItemsRace == {CartItem("1", quantity) : quantity \in 1..MaxQuantity} \cup {CartItem("99", 1)}

\* add_to_cart requests that overlap, every store call answered.
NextRace ==
    \/ startup_event(NoFailure)
    \/ \E r \in Requests : \E item \in ItemsRace :
          Receive(r, "add_to_cart", item, Bearer(TokenNow))
    \/ \E r \in Requests : add_to_cart_query(r, None)
    \/ \E r \in Requests : add_to_cart_write(r, None)
    \/ \E r \in Requests : Complete(r)

SpecRace == InitAuth /\ [][NextRace]_vars

\* A request served whole before any request is in flight.
Setup(item) ==
    /\ \A r \in Requests : inflight[r].pc = "idle"
    /\ add_to_cart(item, Bearer(TokenNow), NoFailure)

\* The exceptions a store call of an overlapping request may raise.
Raises == {None, CosmosHttpResponseError, ServiceRequestError}

\* After some requests served one after the other, a create_order that
\* overlaps one other request, an add_to_cart or a second create_order;
\* every store call is answered.
NextOverlap ==
    \/ startup_event(NoFailure)
    \/ \E item \in ItemsRace : Setup(item)
    \/ \E item \in ItemsRace : Receive("r1", "add_to_cart", item, Bearer(TokenNow))
    \/ \E r \in Requests : Receive(r, "create_order", NoItem, Bearer(TokenNow))
    \/ add_to_cart_query("r1", None)
    \/ add_to_cart_write("r1", None)
    \/ \E r \in Requests : create_order_query(r, None)
    \/ \E r \in Requests : create_order_persist(r, None)
    \/ \E r \in Requests : create_order_delete(r, None)

SpecOverlap == InitAuth /\ [][NextOverlap]_vars

\* The same, where a store call of create_order may raise.
NextOverlapFail ==
    \/ startup_event(NoFailure)
    \/ \E item \in ItemsRace : Setup(item)
    \/ \E item \in ItemsRace : Receive("r1", "add_to_cart", item, Bearer(TokenNow))
    \/ \E r \in Requests : Receive(r, "create_order", NoItem, Bearer(TokenNow))
    \/ add_to_cart_query("r1", None)
    \/ add_to_cart_write("r1", None)
    \/ \E r \in Requests : \E exc \in Raises : create_order_query(r, exc)
    \/ \E r \in Requests : \E exc \in Raises : create_order_persist(r, exc)
    \/ \E r \in Requests : \E exc \in Raises : create_order_delete(r, exc)

SpecOverlapFail == InitAuth /\ [][NextOverlapFail]_vars

-----------------------------------------------------------------------------
(* Properties *)

ProtectedRoutes == {"get_cart", "add_to_cart", "remove_from_cart", "create_order", "get_orders"}
ReadRoutes == {"list_products", "search_products", "get_categories", "get_cart", "get_orders"}

\* The step served a request whose caller was authenticated, with the store set up.
Authenticated == started /\ response'.status # 401
Available == client # None

LineOf(entry) == [product_id |-> entry.product_id, quantity |-> entry.quantity]
EntriesFor(c, product_id) == SelectSeq(c, LAMBDA d : d.product_id = product_id)

\* C1: create_order by an authenticated caller on an empty cart is rejected
\* with an error and persists no order; no order without line items exists.
C1_EmptyCartRejected ==
    [][(Authenticated /\ Available /\ route' = "create_order" /\ cart = <<>>)
          => /\ response'.kind = "error"
             /\ orders' = orders
             /\ \A i \in 1..Len(orders') : orders'[i].items # <<>>]_vars

\* C2: with the store available, create_order on a cart of N >= 1 entries
\* persists exactly one new order, status "confirmed", whose line items are
\* exactly the N (product_id, quantity) pairs, and deletes all N entries; a
\* get_cart that follows at once returns the empty list.
C2_OrderTakesWholeCart ==
    [][/\ (Authenticated /\ Available /\ route' = "create_order" /\ Len(cart) >= 1)
          => /\ Len(orders') = Len(orders) + 1
             /\ SubSeq(orders', 1, Len(orders)) = orders
             /\ LET order == orders'[Len(orders')]
                IN /\ order.status = "confirmed"
                   /\ order.user_id = DEFAULT_USER
                   /\ order.items = [i \in 1..Len(cart) |-> LineOf(cart[i])]
                   /\ response' = Json(200, "order", order)
             /\ cart' = <<>>
       /\ (Authenticated /\ Available /\ route = "create_order" /\ response.kind = "order"
           /\ route' = "get_cart")
          => response' = EmptyList]_vars

C2_Witness ==
    /\ route = "create_order"
    /\ response.kind = "order"
    /\ Len(response.body.items) = 2
    /\ cart = <<>>
    /\ Len(orders) = 1

\* C3: requests served one after the other leave at most one cart entry per
\* product; an add_to_cart that is saved leaves exactly one entry for its
\* product, holding the quantity of that request, and touches no other
\* product's entry; every other request leaves each entry as it was or
\* deletes it.  So an entry always holds the quantity of the latest add.
C3_OneEntryLatestQuantity ==
    [][/\ \A p \in RequestIds : Len(EntriesFor(cart', p)) <= 1
       /\ \A item \in Items :
             (route' = "add_to_cart" /\ response'.kind = "message"
              /\ add_to_cart(item, Bearer(TokenNow), NoFailure))
             => /\ Len(EntriesFor(cart', item.product_id)) = 1
                /\ EntriesFor(cart', item.product_id)[1].quantity = item.quantity
                /\ \A p \in RequestIds \ {item.product_id} :
                      EntriesFor(cart', p) = EntriesFor(cart, p)
       /\ ~(route' = "add_to_cart" /\ response'.kind = "message")
             => \A p \in RequestIds :
                   EntriesFor(cart', p) \in {EntriesFor(cart, p), <<>>}]_vars

C3_Witness ==
    /\ route = "add_to_cart"
    /\ storeCalls = <<"cart.query_items", "cart.upsert_item">>
    /\ response.kind = "message"
    /\ uuidCount = 1
    /\ Len(cart) = 1
    /\ cart[1].quantity = 2

\* C4: with the store available, remove_from_cart(p) deletes every entry for
\* p, leaves the entries of other products, the orders and the catalog as
\* they were and answers the success message, also when there is no entry
\* for p, in which case the cart is unchanged.
C4_RemoveOnlyThatProduct ==
    [][\A p \in RequestIds :
          (route' = "remove_from_cart" /\ Authenticated /\ Available
           /\ remove_from_cart(p, Bearer(TokenNow), NoFailure))
          => /\ cart' = SelectSeq(cart, LAMBDA d : d.product_id # p)
             /\ orders' = orders
             /\ products' = products
             /\ response' = Json(200, "message", "Removed from Cosmos DB")
             /\ (EntriesFor(cart, p) = <<>> => cart' = cart)]_vars

C4_Witness ==
    /\ route = "remove_from_cart"
    /\ response.kind = "message"
    /\ storeCalls = <<"cart.query_items">>
    /\ Len(cart) = 1

\* C5: add_to_cart with a quantity of zero or less is answered as a caller
\* error and leaves the cart unchanged, so every cart entry and every order
\* line has a quantity of at least 1.
C5_QuantityPositive ==
    [][/\ \A item \in Items :
             (item.quantity <= 0 /\ route' = "add_to_cart" /\ Authenticated
              /\ add_to_cart(item, Bearer(TokenNow), NoFailure))
             => (cart' = cart /\ response'.status \in 400..499)
       /\ \A i \in 1..Len(cart') : cart'[i].quantity >= 1
       /\ \A i \in 1..Len(orders') : \A j \in 1..Len(orders'[i].items) :
             orders'[i].items[j].quantity >= 1]_vars

\* The headers the claim names: missing, not of the form "Bearer <token>",
\* or with a token that is malformed, expired, wrongly signed or without a
\* username claim.
BadAuthorization(a, now) ==
    \/ ~a.present
    \/ a.scheme # "Bearer "
    \/ a.credentials.segments # 3
    \/ a.credentials.signature #
          Sign(JWT_SECRET_KEY, JWT_ALGORITHM, a.credentials.payload)
    \/ "sub" \notin DOMAIN a.credentials.payload
    \/ a.credentials.payload.exp < now

\* C6: a protected route asked with a bad Authorization header answers 401
\* without the handler running: no store call is issued and the catalog,
\* the cart and the orders are unchanged.  (Every step of a protected route
\* is such a 401, or is the answer to no bad header.)
C6_BadHeaderStopsAtDependency ==
    [][(started /\ route' \in ProtectedRoutes)
          => \/ /\ response'.status = 401
                /\ storeCalls' = <<>>
                /\ UNCHANGED store
             \/ \A a \in Headers :
                   BadAuthorization(a, clock)
                   => ~ \/ route' = "get_cart" /\ get_cart(a, NoFailure)
                        \/ route' = "add_to_cart"
                           /\ \E item \in ItemsWith(a, Items) : add_to_cart(item, a, NoFailure)
                        \/ route' = "remove_from_cart"
                           /\ \E p \in IdsWith(a, Items) : remove_from_cart(p, a, NoFailure)
                        \/ route' = "create_order" /\ create_order(a, NoFailure)
                        \/ route' = "get_orders" /\ get_orders(a, NoFailure)]_vars

C6_Witness ==
    /\ route = "create_order"
    /\ response = HTTPException(401, "Invalid or expired token")
    /\ storeCalls = <<>>
    /\ Len(cart) = 2

\* C7: a token auth_login issued at minute t is accepted by get_current_user,
\* which yields its username, at every minute up to t + 60 and is rejected
\* at every later minute; the same token signed with another key, or with its
\* payload altered, is rejected at every minute.  The verdict rests on the
\* token and the clock alone, whatever requests came before.
C7_TokenLifetime ==
    \A g \in issued :
        /\ LET verdict == get_current_user(Bearer(g.token), clock)
           IN IF clock <= g.at + ACCESS_TOKEN_EXPIRE_MINUTES
              THEN verdict.status = 200 /\ verdict.username = g.token.payload.sub
              ELSE verdict.status = 401
        /\ get_current_user(Bearer(WrongKey(g.token)), clock).status = 401
        /\ get_current_user(Bearer(Tampered(g.token)), clock).status = 401

C7_Witness ==
    /\ \E g \in issued : clock > g.at + ACCESS_TOKEN_EXPIRE_MINUTES
    /\ route = "get_orders"
    /\ response = HTTPException(401, "Invalid or expired token")

\* C8: auth_login answers a bearer token whose username claim is the
\* submitted username exactly for ("demo", "demo123"); any other pair gets
\* one and the same 401; a token it issued is accepted by a protected route
\* until it expires.
C8_LoginDemoOnly ==
    [][/\ \A u \in Usernames, p \in Passwords :
             (route' = "auth_login" /\ auth_login(LoginRequest(u, p)))
             => IF u = "demo" /\ p = "demo123"
                THEN /\ response'.status = 200
                     /\ response'.kind = "token"
                     /\ response'.body.token_type = "bearer"
                     /\ response'.body.access_token.payload.sub = u
                     /\ get_current_user(Bearer(response'.body.access_token), clock')
                           = [status |-> 200, detail |-> "", username |-> u]
                ELSE /\ response' = HTTPException(401, "Invalid credentials")
                     /\ issued' = issued
       /\ \A g \in issued :
             (route' = "get_orders" /\ get_orders(Bearer(g.token), NoFailure)
              /\ clock <= g.at + ACCESS_TOKEN_EXPIRE_MINUTES)
             => response'.status = 200]_vars

C8_Witness ==
    /\ route = "get_orders"
    /\ response.status = 200
    /\ issued # {}

\* C9: get_product answers the stored product with that id when there is
\* one, 404 when the store answered and has none, and 503 when the store is
\* not set up or the query failed: a failed query is neither a 404 nor an
\* exception that leaves the handler.
C9_ProductLookupStatus ==
    [][\A id \in RequestIds, fail \in FailuresIn(1) :
          (started /\ route' = "get_product" /\ get_product(id, fail))
          => IF client = None \/ raised' # None
             THEN response'.status = 503
             ELSE LET found == SelectSeq(products, LAMBDA c : c.id = id)
                  IN IF found # <<>>
                     THEN response' = Json(200, "product", found[1])
                     ELSE response'.status = 404]_vars

\* C10: a read endpoint that returns a collection answers the empty
\* collection when the store is not set up or a query fails during the
\* request, never an error object or an exception, and changes no stored
\* state.
C10_ReadsDegradeToEmpty ==
    [][(started /\ route' \in ReadRoutes /\ response'.status # 401
        /\ (client = None \/ raised' # None))
          => (response' = EmptyList /\ UNCHANGED store)]_vars

IsSeed(p) == \E k \in 1..Len(SeedProducts) : SeedProducts[k] = p
NoDuplicateId(c) == \A i, j \in 1..Len(c) : i # j => c[i].id # c[j].id
SeedingInProgress == \E r \in Requests : inflight[r].pc = "seed"

\* C11: initialization seeds the demo catalog only when its query finds the
\* collection empty: against an empty catalog it leaves exactly the demo
\* catalog, against a non-empty one it issues no creation and leaves the
\* collection as it is.  Whatever instances start, stop and start again,
\* every product in the collection is a demo product as seeded and no id
\* occurs twice; a creation that meets an existing id changes nothing and
\* the seeding loop goes on to the next product.  Once the store is set up
\* and no instance is in the middle of seeding, list_products without a
\* category returns every demo product.
C11_SeedOnceWhenEmpty ==
    [][/\ \A i \in 1..Len(products') : IsSeed(products'[i])
       /\ NoDuplicateId(products')
       /\ (route' = "startup_event" /\ configured /\ startup_event(NoFailure))
             => IF products = <<>>
                THEN products' = SeedProducts
                ELSE products' = products /\ storeCalls' = <<"products.query_items">>
       /\ \A r \in Requests :
             /\ init_cosmos_query(r)
                   => /\ products' = products
                      /\ products # <<>> => inflight'[r].pc = "done"
             /\ seed_products_step(r)
                   => LET k == inflight[r].k
                      IN /\ IF HasId(products, SeedProducts[k].id)
                            THEN products' = products
                            ELSE products' = Append(products, SeedProducts[k])
                         /\ IF k < Len(SeedProducts)
                            THEN inflight'[r].pc = "seed" /\ inflight'[r].k = k + 1
                            ELSE inflight'[r].pc = "done"
       /\ (route' = "list_products" /\ client # None /\ ~SeedingInProgress
           /\ list_products(None, NoFailure))
             => \A k \in 1..Len(SeedProducts) :
                   \E i \in 1..Len(response'.body) : response'.body[i] = SeedProducts[k]]_vars

C11_Witness ==
    /\ \A r \in Requests :
          /\ inflight[r].route = "init_cosmos"
          /\ inflight[r].pc = "done"
          /\ inflight[r].read = <<>>
    /\ route = "list_products"
    /\ response = Json(200, "list", SeedProducts)

InCatalog(product_id) == \E i \in 1..Len(products) : products[i].id = product_id

\* C12: get_cart by an authenticated caller, with the store set up, answers
\* a list with exactly one line per cart entry of the user whose product is
\* in the catalog, in the order of the entries: the line has the entry's
\* quantity and the id, name, price, image and category of that product.
\* Entries whose product is not in the catalog are left out, the answer is
\* never an error, and neither the cart nor the catalog changes.
C12_CartLinesOfKnownProducts ==
    [][(Authenticated /\ Available /\ route' = "get_cart")
          => LET kept == SelectSeq(cart, LAMBDA d : d.user_id = DEFAULT_USER
                                                     /\ InCatalog(d.product_id))
                 lines == response'.body
             IN /\ response'.status = 200
                /\ response'.kind = "list"
                /\ Len(lines) = Len(kept)
                /\ \A j \in 1..Len(kept) :
                      /\ lines[j].quantity = kept[j].quantity
                      /\ lines[j].id = kept[j].product_id
                      /\ DOMAIN lines[j] = {"id", "name", "price", "quantity", "image", "category"}
                      /\ \E i \in 1..Len(products) :
                            /\ products[i].id = lines[j].id
                            /\ lines[j].name = products[i].name
                            /\ lines[j].price = products[i].price
                            /\ lines[j].image = products[i].image
                            /\ lines[j].category = products[i].category
                /\ cart' = cart
                /\ products' = products]_vars

C12_Witness ==
    /\ route = "get_cart"
    /\ Len(cart) = 2
    /\ \E i \in 1..Len(cart) : ~InCatalog(cart[i].product_id)
    /\ response.kind = "list"
    /\ Len(response.body) = 1
    /\ response.body[1].quantity = 2

\* The request in flight has returned the success message of add_to_cart.
Saved(h) ==
    /\ h.route = "add_to_cart"
    /\ h.pc = "done"
    /\ h.response = Json(200, "message", "Saved to Cosmos DB")

\* C13: add_to_cart reads and then writes, and the write acts on what was
\* read, not on what the cart holds by then.  A write by a request that
\* read no entry adds an entry for its product and is acknowledged, so two
\* acknowledged requests for one product that both read no entry leave at
\* least two entries for it (a duplicate).  A write by a request that read
\* an entry sets that entry to its own quantity, so of two acknowledged
\* requests with different quantities that both read the same entry, the
\* entry holds one quantity and the other is held nowhere (a lost update).
C13_AddIsReadThenWrite ==
    [][\A r \in Requests :
          LET h == inflight[r]
              p == h.item.product_id
          IN /\ (add_to_cart_write(r, None) /\ h.read = <<>>)
                   => /\ Len(EntriesFor(cart', p)) = Len(EntriesFor(cart, p)) + 1
                      /\ Saved(inflight'[r])
             /\ (add_to_cart_write(r, None) /\ h.read # <<>>)
                   => /\ h.read[1].product_id = p
                      /\ \E i \in 1..Len(cart') :
                            cart'[i].id = h.read[1].id /\ cart'[i].quantity = h.item.quantity
                      /\ Len(EntriesFor(cart', p)) = Len(EntriesFor(cart, p))
                      /\ Saved(inflight'[r])
             /\ \A s \in Requests \ {r} :
                   LET g == inflight'[s]
                       f == inflight'[r]
                   IN (Saved(f) /\ Saved(g) /\ f.item.product_id = g.item.product_id
                       /\ f.read = g.read)
                      => IF f.read = <<>>
                         THEN Len(EntriesFor(cart', f.item.product_id)) >= 2
                         ELSE f.item.quantity # g.item.quantity
                              => \E i \in 1..Len(cart') :
                                    /\ cart'[i].id = f.read[1].id
                                    /\ cart'[i].quantity \in {f.item.quantity, g.item.quantity}
                                    /\ \A j \in 1..Len(cart') :
                                          (j # i /\ cart'[j].product_id = f.item.product_id)
                                          => cart'[j] \in {f.read[n] : n \in 1..Len(f.read)}]_vars

C13_Witness ==
    /\ Saved(inflight["r1"])
    /\ Saved(inflight["r2"])
    /\ inflight["r1"].item.product_id = inflight["r2"].item.product_id
    /\ inflight["r1"].item.quantity # inflight["r2"].item.quantity
    /\ inflight["r1"].read = inflight["r2"].read
    /\ Len(inflight["r1"].read) = 2
    /\ Len(EntriesFor(cart, inflight["r1"].item.product_id)) = 2

\* The order with the id of the one request `h' built is in the store, confirmed.
Persisted(h, c) ==
    \E n \in 1..Len(c) : c[n].id = h.order.id /\ c[n] = h.order /\ c[n].status = "confirmed"

\* C14: create_order persists its order before it deletes any cart entry.
\* A step that removes an entry from the cart is a deletion by a
\* create_order request whose order is already in the store, confirmed, and
\* has a line for that entry as the request read it.  A failed creation of
\* the order ends the request with an error and changes neither the cart nor
\* the orders.  A failed deletion ends the request with an error, leaves the
\* order in the store, confirmed, and leaves the cart as it is, so the
\* entries not yet deleted stay.  Nothing is undone later: the order of a
\* request that has returned stays in the store.
C14_OrderBeforeDeletions ==
    [][/\ \A i \in 1..Len(cart) :
             (~ \E j \in 1..Len(cart') : cart'[j].id = cart[i].id)
             => \E r \in Requests :
                   LET h == inflight[r]
                   IN /\ h.route = "create_order"
                      /\ h.pc = "delete"
                      /\ create_order_delete(r, None)
                      /\ Persisted(h, orders)
                      /\ h.read[h.k].id = cart[i].id
                      /\ h.order.items[h.k] = LineOf(h.read[h.k])
                      /\ h.order.items[h.k].product_id = cart[i].product_id
       /\ \A r \in Requests : \A exc \in Raises \ {None} :
             create_order_persist(r, exc)
             => /\ cart' = cart
                /\ orders' = orders
                /\ inflight'[r].pc = "done"
                /\ inflight'[r].response.kind = "error"
                /\ inflight'[r].order = NoOrder
       /\ \A r \in Requests : \A exc \in Raises :
             (create_order_delete(r, exc) /\ inflight'[r].response.kind = "error")
             => /\ cart' = cart
                /\ orders' = orders
                /\ Persisted(inflight[r], orders')
                /\ inflight'[r].pc = "done"
       /\ \A r \in Requests :
             (inflight'[r].route = "create_order" /\ inflight'[r].order # NoOrder)
             => Persisted(inflight'[r], orders')]_vars

C14_Witness ==
    LET h == inflight["r1"]
    IN /\ h.route = "create_order"
       /\ h.pc = "done"
       /\ h.response = ErrorPayload(ServiceRequestError)
       /\ Len(h.read) = 2
       /\ h.k = 2
       /\ Persisted(h, orders)
       /\ cart = <<h.read[2]>>
       /\ inflight["r2"].pc = "idle"

\* The ids of the cart entries a create_order request read and put in its order.
Captured(h) == {h.read[n].id : n \in 1..Len(h.read)}

\* C15: no cart entry is a line item of two persisted orders, also when two
\* create_order requests overlap, and a create_order that persisted its
\* order does not answer with an error payload.
C15_EntryInOneOrder ==
    \A r \in Requests :
        LET h == inflight[r]
        IN (h.route = "create_order" /\ h.order # NoOrder)
           => /\ \A s \in Requests \ {r} :
                    (inflight[s].route = "create_order" /\ inflight[s].order # NoOrder)
                    => Captured(h) \cap Captured(inflight[s]) = {}
              /\ h.pc = "done" => h.response.kind # "error"

\* C16: when an acknowledged add_to_cart(p, q) and a create_order have both
\* returned, and no other request touched p since the first of them came
\* in, the quantity q for p is held by a cart entry for p or is the quantity
\* of p in the order that create_order persisted.
C16_AcknowledgedAddKept ==
    LET a == inflight["r1"]
        o == inflight["r2"]
    IN (Saved(a) /\ o.route = "create_order" /\ o.pc = "done")
       => \/ \E i \in 1..Len(cart) : LineOf(cart[i]) = a.item
          \/ /\ Persisted(o, orders)
             /\ \E n \in 1..Len(o.order.items) : o.order.items[n] = a.item

\* C17: with requests served one after the other, the line items of the
\* order that create_order persists are the (product id, quantity) lines
\* that a get_cart served just before it returned, and every line item of
\* every persisted order names a product of the catalog.
C17_OrderLinesAreCartLines ==
    [][/\ (Available /\ route = "get_cart" /\ response.kind = "list"
           /\ Authenticated /\ route' = "create_order" /\ response'.kind = "order")
          => response'.body.items =
                [j \in 1..Len(response.body) |->
                    [product_id |-> response.body[j].id,
                     quantity |-> response.body[j].quantity]]
       /\ \A n \in 1..Len(orders') : \A m \in 1..Len(orders'[n].items) :
             \E i \in 1..Len(products') : products'[i].id = orders'[n].items[m].product_id]_vars

=============================================================================
